---- MODULE Spec2Model ----
(***************************************************************************)
(* Model of typescript-react-intl (src/index.ts): extraction of react-intl *)
(* message descriptors from a parsed TSX syntax tree.                      *)
(*                                                                         *)
(* A syntax-tree node is a record [kind, text, kids]: kind is the          *)
(* ts.SyntaxKind name, text is the node's .text (identifiers and           *)
(* literals), kids are the children in the order ts.forEachChild visits    *)
(* them.  A node is addressed by its path, the sequence of child indices   *)
(* leading to it from the source file; document order is the lexicographic *)
(* order of paths (a parent before its children).                          *)
(*                                                                         *)
(* An extracted message is a record [msg, node]: msg is the Message object *)
(* (a function from a subset of the three field names to strings), node is *)
(* the path of the candidate node it was read from (provenance only; the   *)
(* program does not keep it).                                              *)
(***************************************************************************)
EXTENDS Integers, Sequences, FiniteSets, TLC

VARIABLES sourceFile, options, dm, fm, results, tagIdx, ret, pc

vars == <<sourceFile, options, dm, fm, results, tagIdx, ret, pc>>

----------------------------------------------------------------------------
(* Syntax-tree nodes                                                       *)

Node(k, t, c) == [kind |-> k, text |-> t, kids |-> c]

Identifier(t) == Node("Identifier", t, <<>>)
StringLiteral(t) == Node("StringLiteral", t, <<>>)
NoSubstitutionTemplateLiteral(t) == Node("NoSubstitutionTemplateLiteral", t, <<>>)
PropertyAccessExpression(obj, name) == Node("PropertyAccessExpression", name, <<Identifier(obj)>>)
ComputedPropertyName(e) == Node("ComputedPropertyName", "", <<e>>)
PropertyAssignment(name, init) == Node("PropertyAssignment", "", <<name, init>>)
ShorthandPropertyAssignment(t) == Node("ShorthandPropertyAssignment", "", <<Identifier(t)>>)
SpreadAssignment(e) == Node("SpreadAssignment", "", <<e>>)
ObjectLiteralExpression(props) == Node("ObjectLiteralExpression", "", props)
ArrayLiteralExpression(elems) == Node("ArrayLiteralExpression", "", elems)
CallExpression(callee, args) == Node("CallExpression", "", <<callee>> \o args)
ArrowFunction(body) == Node("ArrowFunction", "", <<body>>)
Block(stmts) == Node("Block", "", stmts)
ExpressionStatement(e) == Node("ExpressionStatement", "", <<e>>)
VariableDeclaration(name, init) == Node("VariableDeclaration", "", <<Identifier(name), init>>)
VariableDeclarationNoInit(name) == Node("VariableDeclaration", "", <<Identifier(name)>>)
VariableStatement(decls) == Node("VariableStatement", "", decls)
JsxAttribute(name, init) == Node("JsxAttribute", "", <<Identifier(name), init>>)
JsxAttributeNoInit(name) == Node("JsxAttribute", "", <<Identifier(name)>>)
JsxSpreadAttribute(e) == Node("JsxSpreadAttribute", "", <<e>>)
JsxExpression(e) == Node("JsxExpression", "", <<e>>)
JsxExpressionEmpty == Node("JsxExpression", "", <<>>)
JsxAttributes(props) == Node("JsxAttributes", "", props)
JsxSelfClosingElement(tag, props) == Node("JsxSelfClosingElement", "", <<tag, JsxAttributes(props)>>)
JsxOpeningElement(tag, props) == Node("JsxOpeningElement", "", <<tag, JsxAttributes(props)>>)
JsxClosingElement(tag) == Node("JsxClosingElement", "", <<tag>>)
JsxElement(tag, props, children) ==
  Node("JsxElement", "", <<JsxOpeningElement(tag, props)>> \o children \o <<JsxClosingElement(tag)>>)
SourceFile(stmts) == Node("SourceFile", "", stmts)

(* Accessors of the typed nodes *)
name(n) == n.kids[1]
hasInitializer(n) == Len(n.kids) >= 2
initializer(n) == n.kids[2]
expression(n) == n.kids[1]
arguments(n) == Tail(n.kids)
tagName(n) == n.kids[1]
attributes(n) == n.kids[2]
properties(n) == n.kids

isVariableDeclaration(n) == n.kind = "VariableDeclaration"
isCallExpression(n) == n.kind = "CallExpression"
isIdentifier(n) == n.kind = "Identifier"
isStringLiteral(n) == n.kind = "StringLiteral"
isNoSubstitutionTemplateLiteral(n) == n.kind = "NoSubstitutionTemplateLiteral"
isLiteralExpression(n) == n.kind \in {"StringLiteral", "NoSubstitutionTemplateLiteral", "NumericLiteral"}
isObjectLiteralExpression(n) == n.kind = "ObjectLiteralExpression"
isPropertyAssignment(n) == n.kind = "PropertyAssignment"
isJsxOpeningLikeElement(n) == n.kind \in {"JsxOpeningElement", "JsxSelfClosingElement"}
isJsxAttribute(n) == n.kind = "JsxAttribute"
isJsxExpression(n) == n.kind = "JsxExpression"
(* ObjectLiteralElementLike.name: absent on a spread assignment *)
hasName(n) == n.kind \in {"PropertyAssignment", "ShorthandPropertyAssignment"}

----------------------------------------------------------------------------
(* src/index.ts                                                            *)

(* isMethodCall comparing the name of any callee, not only a plain identifier *)
isMethodCallAnyCallee(el, methodName) ==
  /\ isVariableDeclaration(el)
  /\ hasInitializer(el)
  /\ isCallExpression(initializer(el))
  /\ expression(initializer(el)).text = methodName

isMethodCall(el, methodName) ==
  /\ isVariableDeclaration(el)
  /\ hasInitializer(el)
  /\ isCallExpression(initializer(el))
  /\ isIdentifier(expression(initializer(el)))
  /\ expression(initializer(el)).text = methodName

MessageKeys == {"defaultMessage", "description", "id"}

EmptyMessage == [k \in {} |-> ""]

(* copyIfMessageKey without the switch on the key *)
copyAnyKey(target, key, value) ==
  [k \in (DOMAIN target) \cup {key} |-> IF k = key THEN value ELSE target[k]]

copyIfMessageKey(target, key, value) ==
  IF key \in MessageKeys
    THEN [k \in (DOMAIN target) \cup {key} |-> IF k = key THEN value ELSE target[k]]
    ELSE target

isValidMessage(obj) == "id" \in DOMAIN obj /\ "defaultMessage" \in DOMAIN obj

(* the inner forEach of extractMessagesForDefineMessages, from property i on *)
RECURSIVE defineMessagesInner(_, _, _)
defineMessagesInner(props, i, msg) ==
  IF i > Len(props) THEN msg
  ELSE LET ip == props[i]
           copied ==
             IF /\ hasName(ip)
                /\ (isIdentifier(name(ip)) \/ isLiteralExpression(name(ip)))
                /\ isPropertyAssignment(ip)
                /\ (isStringLiteral(initializer(ip)) \/ isNoSubstitutionTemplateLiteral(initializer(ip)))
               THEN copyIfMessageKey(msg, name(ip).text, initializer(ip).text)
               ELSE msg
       IN defineMessagesInner(props, i + 1, copied)

(* extractMessagesForDefineMessages with msg declared outside the outer
   forEach, so that the fields of one property carry over to the next *)
RECURSIVE defineMessagesShared(_, _, _, _)
defineMessagesShared(objLiteral, path, i, msg) ==
  IF i > Len(properties(objLiteral)) THEN <<>>
  ELSE LET p == properties(objLiteral)[i]
           matches == isPropertyAssignment(p) /\ isObjectLiteralExpression(initializer(p))
           next == IF matches
                     THEN defineMessagesInner(properties(initializer(p)), 1, msg)
                     ELSE msg
           here == IF matches /\ isValidMessage(next)
                     THEN <<[msg |-> next, node |-> path \o <<i, 2>>]>>
                     ELSE <<>>
       IN here \o defineMessagesShared(objLiteral, path, i + 1, next)

defineMessagesOuterShared(objLiteral, path, i) ==
  defineMessagesShared(objLiteral, path, i, EmptyMessage)

RECURSIVE defineMessagesOuter(_, _, _)
defineMessagesOuter(objLiteral, path, i) ==
  IF i > Len(properties(objLiteral)) THEN <<>>
  ELSE LET p == properties(objLiteral)[i]
           msg == defineMessagesInner(properties(initializer(p)), 1, EmptyMessage)
           here ==
             IF isPropertyAssignment(p) /\ isObjectLiteralExpression(initializer(p))
               THEN IF isValidMessage(msg)
                      THEN <<[msg |-> msg, node |-> path \o <<i, 2>>]>>
                      ELSE <<>>
               ELSE <<>>
       IN here \o defineMessagesOuter(objLiteral, path, i + 1)

extractMessagesForDefineMessages(objLiteral, path) ==
  defineMessagesOuter(objLiteral, path, 1)

RECURSIVE formatMessageProps(_, _, _)
formatMessageProps(props, i, msg) ==
  IF i > Len(props) THEN msg
  ELSE LET p == props[i]
           copied ==
             IF /\ isPropertyAssignment(p)
                /\ (isIdentifier(name(p)) \/ isLiteralExpression(name(p)))
                /\ isStringLiteral(initializer(p))
               THEN copyIfMessageKey(msg, name(p).text, initializer(p).text)
               ELSE msg
       IN formatMessageProps(props, i + 1, copied)

extractMessagesForFormatMessage(objLiteral, path) ==
  LET msg == formatMessageProps(properties(objLiteral), 1, EmptyMessage)
  IN IF isValidMessage(msg) THEN <<[msg |-> msg, node |-> path]>> ELSE <<>>

(* the MessageExtracter passed by main for each method name *)
MessageExtracter(methodName, obj, path) ==
  IF methodName = "defineMessages"
    THEN extractMessagesForDefineMessages(obj, path)
    ELSE extractMessagesForFormatMessage(obj, path)

(* find always returns undefined, so ts.forEachChild visits every child *)
RECURSIVE find(_, _, _)
RECURSIVE findEachChild(_, _, _, _)
find(n, path, methodName) ==
  IF isObjectLiteralExpression(n)
    THEN MessageExtracter(methodName, n, path)
    ELSE findEachChild(n, path, methodName, 1)
findEachChild(n, path, methodName, i) ==
  IF i > Len(n.kids) THEN <<>>
  ELSE find(n.kids[i], Append(path, i), methodName)
         \o findEachChild(n, path, methodName, i + 1)

(* extractMessagesForNode whose find returns a truthy value at an object
   literal, which ends the ts.forEachChild walk at the first one *)
RECURSIVE firstObject(_, _)
RECURSIVE firstObjectOfChildren(_, _, _)
firstObject(n, path) ==
  IF isObjectLiteralExpression(n) THEN <<[el |-> n, at |-> path]>>
  ELSE firstObjectOfChildren(n, path, 1)
firstObjectOfChildren(n, path, i) ==
  IF i > Len(n.kids) THEN <<>>
  ELSE LET found == firstObject(n.kids[i], Append(path, i))
       IN IF found # <<>> THEN found ELSE firstObjectOfChildren(n, path, i + 1)

extractMessagesForFirstObject(node, path, methodName) ==
  LET found == firstObject(node, path)
  IN IF found = <<>> THEN <<>>
     ELSE MessageExtracter(methodName, found[1].el, found[1].at)

extractMessagesForNode(node, path, methodName) == find(node, path, methodName)

(* the callback findMethodCallsWithName gives to forAllVarDecls *)
declMessages(decl, path, methodName) ==
  IF isMethodCall(decl, methodName)
    THEN IF Len(arguments(initializer(decl))) > 0
           THEN extractMessagesForNode(arguments(initializer(decl))[1],
                                       path \o <<2, 2>>, methodName)
           ELSE <<>>
    ELSE <<>>

(* a walk that takes every call to the method, initializer or not *)
RECURSIVE forAllCalls(_, _, _)
RECURSIVE forAllCallsEachChild(_, _, _, _)
forAllCalls(node, path, methodName) ==
  IF /\ isCallExpression(node)
     /\ isIdentifier(expression(node))
     /\ expression(node).text = methodName
    THEN IF Len(arguments(node)) > 0
           THEN extractMessagesForNode(arguments(node)[1], path \o <<2>>, methodName)
           ELSE <<>>
    ELSE forAllCallsEachChild(node, path, methodName, 1)
forAllCallsEachChild(node, path, methodName, i) ==
  IF i > Len(node.kids) THEN <<>>
  ELSE forAllCalls(node.kids[i], Append(path, i), methodName)
         \o forAllCallsEachChild(node, path, methodName, i + 1)

RECURSIVE forAllVarDecls(_, _, _)
RECURSIVE forAllVarDeclsEachChild(_, _, _, _)
forAllVarDecls(node, path, methodName) ==
  IF isVariableDeclaration(node)
    THEN declMessages(node, path, methodName)
    ELSE forAllVarDeclsEachChild(node, path, methodName, 1)
forAllVarDeclsEachChild(node, path, methodName, i) ==
  IF i > Len(node.kids) THEN <<>>
  ELSE forAllVarDecls(node.kids[i], Append(path, i), methodName)
         \o forAllVarDeclsEachChild(node, path, methodName, i + 1)

findMethodCallsWithName(file, methodName) == forAllVarDecls(file, <<>>, methodName)

RECURSIVE findJsxElement(_, _, _)
RECURSIVE findJsxElementEachChild(_, _, _, _)
findJsxElement(n, path, tag) ==
  LET here ==
        IF /\ isJsxOpeningLikeElement(n)
           /\ isIdentifier(tagName(n))
           /\ tagName(n).text = tag
          THEN <<[el |-> n, at |-> path]>>
          ELSE <<>>
  IN here \o findJsxElementEachChild(n, path, tag, 1)
findJsxElementEachChild(n, path, tag, i) ==
  IF i > Len(n.kids) THEN <<>>
  ELSE findJsxElement(n.kids[i], Append(path, i), tag)
         \o findJsxElementEachChild(n, path, tag, i + 1)

findJsxOpeningLikeElementsWithName(node, tag) == findJsxElement(node, <<>>, tag)

(* elementAttributes without the literal check on an embedded expression *)
RECURSIVE elementAttributesAnyExpression(_, _, _)
elementAttributesAnyExpression(props, i, msg) ==
  IF i > Len(props) THEN msg
  ELSE LET attr == props[i]
           init == initializer(attr)
           copied ==
             IF ~isJsxAttribute(attr) \/ ~hasInitializer(attr) THEN msg
             ELSE IF isStringLiteral(init)
               THEN copyIfMessageKey(msg, name(attr).text, init.text)
             ELSE IF isJsxExpression(init) /\ Len(init.kids) > 0
               THEN copyIfMessageKey(msg, name(attr).text, expression(init).text)
             ELSE msg
       IN elementAttributesAnyExpression(props, i + 1, copied)

(* the forEach over element.attributes.properties, from attribute i on *)
RECURSIVE elementAttributes(_, _, _)
elementAttributes(props, i, msg) ==
  IF i > Len(props) THEN msg
  ELSE LET attr == props[i]
           init == initializer(attr)
           copied ==
             IF ~isJsxAttribute(attr) \/ ~hasInitializer(attr) THEN msg
             ELSE IF isStringLiteral(init)
               THEN copyIfMessageKey(msg, name(attr).text, init.text)
             ELSE IF isJsxExpression(init)
               THEN IF /\ Len(init.kids) > 0
                       /\ (isStringLiteral(expression(init))
                            \/ isNoSubstitutionTemplateLiteral(expression(init)))
                      THEN copyIfMessageKey(msg, name(attr).text, expression(init).text)
                      ELSE msg
             ELSE msg
       IN elementAttributes(props, i + 1, copied)

elementMessage(element) ==
  elementAttributes(properties(attributes(element)), 1, EmptyMessage)

RECURSIVE getElementsMessagesFrom(_, _)
getElementsMessagesFrom(elements, i) ==
  IF i > Len(elements) THEN <<>>
  ELSE LET msg == elementMessage(elements[i].el)
       IN (IF isValidMessage(msg)
             THEN <<[msg |-> msg, node |-> elements[i].at]>>
             ELSE <<>>)
          \o getElementsMessagesFrom(elements, i + 1)

getElementsMessages(elements) == getElementsMessagesFrom(elements, 1)

DefaultTagName == "FormattedMessage"

tagNames == <<DefaultTagName>> \o options

(* main returning the method-call messages ahead of the markup ones *)
mainResultMethodsFirst(jsx, defined, formatted) == defined \o formatted \o jsx

(* the value main returns *)
mainResult(jsx, defined, formatted) == jsx \o defined \o formatted

----------------------------------------------------------------------------
(* Bounds of the input families                                            *)

MaxAttributes == 3
MaxProperties == 3
MaxOuterProperties == 3
MaxNesting == 1
MaxStatements == 2
MaxTagNames == 2

SeqsUpTo(S, n) == UNION {[1..k -> S] : k \in 0..n}

(* <FormattedMessage ... /> with every attribute form getElementsMessages tells apart *)
MarkupAttributes ==
  {JsxAttribute(k, StringLiteral(v)) : k \in {"id", "defaultMessage"}, v \in {"a", ""}}
    \cup {JsxAttribute("id", JsxExpression(StringLiteral("b"))),
          JsxAttribute("defaultMessage", JsxExpression(NoSubstitutionTemplateLiteral("t"))),
          JsxAttribute("description", StringLiteral("d")),
          JsxAttribute("values", StringLiteral("v")),
          JsxAttribute("values", JsxExpression(Identifier("x"))),
          JsxAttribute("id", JsxExpression(Identifier("x"))),
          JsxAttributeNoInit("defaultMessage"),
          JsxAttribute("description", JsxExpressionEmpty),
          JsxSpreadAttribute(Identifier("props"))}

MarkupFile(attrs) ==
  SourceFile(<<ExpressionStatement(JsxSelfClosingElement(Identifier(DefaultTagName), attrs))>>)

(* properties of a message object, in every form the extractors tell apart *)
MessageProperties ==
  {PropertyAssignment(Identifier("id"), StringLiteral("a")),
   PropertyAssignment(Identifier("id"), NoSubstitutionTemplateLiteral("t")),
   PropertyAssignment(Identifier("id"), Identifier("x")),
   PropertyAssignment(StringLiteral("id"), StringLiteral("c")),
   PropertyAssignment(ComputedPropertyName(StringLiteral("id")), StringLiteral("a")),
   PropertyAssignment(Identifier("defaultMessage"), StringLiteral("b")),
   PropertyAssignment(Identifier("defaultMessage"), StringLiteral("")),
   PropertyAssignment(Identifier("description"), StringLiteral("d")),
   PropertyAssignment(Identifier("values"), StringLiteral("v")),
   ShorthandPropertyAssignment("id"),
   SpreadAssignment(Identifier("rest"))}

ValidObject ==
  ObjectLiteralExpression(<<PropertyAssignment(Identifier("id"), StringLiteral("a")),
                            PropertyAssignment(Identifier("defaultMessage"), StringLiteral("b"))>>)

SmallObjects ==
  {ValidObject,
   ObjectLiteralExpression(<<PropertyAssignment(Identifier("id"), StringLiteral("c")),
                             PropertyAssignment(Identifier("defaultMessage"), StringLiteral("b")),
                             PropertyAssignment(Identifier("description"), StringLiteral("d"))>>),
   ObjectLiteralExpression(<<PropertyAssignment(Identifier("defaultMessage"), StringLiteral("b"))>>),
   ObjectLiteralExpression(<<PropertyAssignment(Identifier("id"), NoSubstitutionTemplateLiteral("t")),
                             PropertyAssignment(Identifier("defaultMessage"), StringLiteral("b"))>>)}

(* properties of the object given to defineMessages *)
OuterProperties ==
  {PropertyAssignment(Identifier("k"), o) : o \in SmallObjects}
    \cup {PropertyAssignment(Identifier("k"), StringLiteral("s")),
          ShorthandPropertyAssignment("k"),
          SpreadAssignment(Identifier("rest"))}

Declare(init) == VariableStatement(<<VariableDeclaration("x", init)>>)

(* const x = formatMessage({...}) *)
FormatMessageFile(ps) ==
  SourceFile(<<Declare(CallExpression(Identifier("formatMessage"),
                 <<ObjectLiteralExpression(ps)>>))>>)

(* const x = defineMessages({k: {...}}) *)
DefineMessageFile(ps) ==
  SourceFile(<<Declare(CallExpression(Identifier("defineMessages"),
                 <<ObjectLiteralExpression(
                     <<PropertyAssignment(Identifier("k"), ObjectLiteralExpression(ps))>>)>>))>>)

(* const x = defineMessages({k: ..., k: ..., ...}) *)
DefineMessagesFile(ps) ==
  SourceFile(<<Declare(CallExpression(Identifier("defineMessages"),
                 <<ObjectLiteralExpression(ps)>>))>>)

Callees ==
  {Identifier("formatMessage"), Identifier("defineMessages"), Identifier("wrap"),
   PropertyAccessExpression("intl", "formatMessage"),
   PropertyAccessExpression("intl", "defineMessages")}

Candidates ==
  SmallObjects \cup
    {ObjectLiteralExpression(<<PropertyAssignment(Identifier("k"), ValidObject),
                               PropertyAssignment(Identifier("j"), ValidObject)>>)}

(* argument lists: none, an object, an array of objects, a call on an
   object, an object in second place *)
ArgumentLists ==
  {<<>>}
    \cup {<<o>> : o \in Candidates}
    \cup {<<ArrayLiteralExpression(<<o1, o2>>)>> : o1 \in Candidates, o2 \in Candidates}
    \cup {<<CallExpression(c, <<o>>)>> : c \in Callees, o \in Candidates}
    \cup {<<Identifier("opts"), o>> : o \in Candidates}

(* a call as the initializer of a declaration, and as a statement of its own *)
CallStatements ==
  {Declare(CallExpression(c, args)) : c \in Callees, args \in ArgumentLists}
    \cup {ExpressionStatement(CallExpression(c, args)) : c \in Callees, args \in ArgumentLists}
    \cup {VariableStatement(<<VariableDeclarationNoInit("x")>>)}

(* a statement inside blocks, inside the function a variable is initialized
   with, inside a callback *)
RECURSIVE Nested(_, _)
Nested(S, depth) ==
  IF depth = 0 THEN S
  ELSE LET inner == Nested(S, depth - 1)
       IN S \cup {Block(<<st>>) : st \in inner}
            \cup {Declare(ArrowFunction(Block(<<st>>))) : st \in inner}
            \cup {ExpressionStatement(CallExpression(Identifier("run"),
                     <<ArrowFunction(Block(<<st>>))>>)) : st \in inner}

NestedCallStatements == Nested(CallStatements, MaxNesting)

ValidAttributes ==
  <<JsxAttribute("id", StringLiteral("a")), JsxAttribute("defaultMessage", StringLiteral("b"))>>

(* statements of a file that mixes the three authoring patterns *)
MixedStatements ==
  {ExpressionStatement(JsxSelfClosingElement(Identifier(DefaultTagName), ValidAttributes)),
   ExpressionStatement(JsxSelfClosingElement(Identifier("Msg"),
     ValidAttributes \o <<JsxAttribute("values", StringLiteral("v"))>>)),
   ExpressionStatement(JsxElement(Identifier("Msg"), ValidAttributes,
     <<JsxSelfClosingElement(Identifier(DefaultTagName), ValidAttributes),
       JsxSelfClosingElement(Identifier("Alt"), ValidAttributes)>>)),
   ExpressionStatement(JsxElement(Identifier(DefaultTagName),
     <<JsxAttribute("id", StringLiteral("a"))>>,
     <<JsxSelfClosingElement(Identifier("Msg"), ValidAttributes)>>)),
   ExpressionStatement(JsxSelfClosingElement(
     PropertyAccessExpression("intl", DefaultTagName), ValidAttributes)),
   Declare(ArrowFunction(JsxSelfClosingElement(Identifier("Alt"), ValidAttributes))),
   Declare(CallExpression(Identifier("defineMessages"),
     <<ObjectLiteralExpression(<<PropertyAssignment(Identifier("k"), ValidObject),
                                 PropertyAssignment(Identifier("j"),
                                   ObjectLiteralExpression(ValidObject.kids
                                     \o <<PropertyAssignment(Identifier("values"), StringLiteral("v"))>>))>>)>>)),
   Declare(CallExpression(Identifier("formatMessage"),
     <<ObjectLiteralExpression(ValidObject.kids
         \o <<PropertyAssignment(Identifier("values"), StringLiteral("v"))>>)>>)),
   VariableStatement(
     <<VariableDeclaration("x", CallExpression(Identifier("formatMessage"),
         <<ObjectLiteralExpression(
             <<PropertyAssignment(Identifier("values"), StringLiteral("v"))>> \o ValidObject.kids)>>)),
       VariableDeclaration("m", CallExpression(Identifier("defineMessages"),
         <<ObjectLiteralExpression(
             <<PropertyAssignment(Identifier("k"),
                 ObjectLiteralExpression(
                   <<PropertyAssignment(Identifier("values"), StringLiteral("v"))>>
                     \o ValidObject.kids))>>)>>))>>)}

MixedFiles == {SourceFile(sts) : sts \in SeqsUpTo(MixedStatements, MaxStatements)}

AdditionalTagNames == SeqsUpTo({"Msg", "Alt"}, MaxTagNames)

----------------------------------------------------------------------------
(* main, one step per statement group of the function body                 *)

Start(file, tags) ==
  /\ sourceFile = file
  /\ options = tags
  /\ dm = <<>>
  /\ fm = <<>>
  /\ results = <<>>
  /\ tagIdx = 1
  /\ ret = <<>>
  /\ pc = "defineMessages"

FindDefineMessages ==
  /\ pc = "defineMessages"
  /\ dm' = findMethodCallsWithName(sourceFile, "defineMessages")
  /\ pc' = "formatMessage"
  /\ UNCHANGED <<sourceFile, options, fm, results, tagIdx, ret>>

FindFormatMessage ==
  /\ pc = "formatMessage"
  /\ fm' = findMethodCallsWithName(sourceFile, "formatMessage")
  /\ pc' = "tagNames"
  /\ UNCHANGED <<sourceFile, options, dm, results, tagIdx, ret>>

ForEachTagName ==
  /\ pc = "tagNames"
  /\ tagIdx <= Len(tagNames)
  /\ LET elements == findJsxOpeningLikeElementsWithName(sourceFile, tagNames[tagIdx])
         jsxMessages == getElementsMessages(elements)
     IN results' = results \o jsxMessages
  /\ tagIdx' = tagIdx + 1
  /\ UNCHANGED <<sourceFile, options, dm, fm, ret, pc>>

Return ==
  /\ pc = "tagNames"
  /\ tagIdx > Len(tagNames)
  /\ ret' = mainResult(results, dm, fm)
  /\ pc' = "done"
  /\ UNCHANGED <<sourceFile, options, dm, fm, results, tagIdx>>

Next == FindDefineMessages \/ FindFormatMessage \/ ForEachTagName \/ Return

InitMarkup ==
  \E n \in 0..MaxAttributes : \E attrs \in [1..n -> MarkupAttributes] :
    Start(MarkupFile(attrs), <<>>)

SpecMarkup == InitMarkup /\ [][Next]_vars

InitDeclarations ==
  \/ \E n \in 0..MaxProperties : \E ps \in [1..n -> MessageProperties] :
       Start(FormatMessageFile(ps), <<>>) \/ Start(DefineMessageFile(ps), <<>>)
  \/ \E n \in 0..MaxOuterProperties : \E ps \in [1..n -> OuterProperties] :
       Start(DefineMessagesFile(ps), <<>>)
  \/ \E st \in NestedCallStatements : Start(SourceFile(<<st>>), <<>>)

SpecDeclarations == InitDeclarations /\ [][Next]_vars

InitMixed ==
  \E file \in MixedFiles : \E tags \in AdditionalTagNames : Start(file, tags)

SpecMixed == InitMixed /\ [][Next]_vars

Init == InitMarkup \/ InitDeclarations \/ InitMixed

Spec == Init /\ [][Next]_vars

----------------------------------------------------------------------------
(* Vocabulary of the properties                                            *)

RECURSIVE NodeAt(_, _)
NodeAt(n, path) ==
  IF path = <<>> THEN n ELSE NodeAt(n.kids[Head(path)], Tail(path))

RECURSIVE Paths(_)
Paths(n) ==
  {<<>>} \cup UNION {{<<i>> \o q : q \in Paths(n.kids[i])} : i \in 1..Len(n.kids)}

IsPrefix(p, q) == Len(p) <= Len(q) /\ SubSeq(q, 1, Len(p)) = p

(* p comes before q in document order *)
RECURSIVE Before(_, _)
Before(p, q) ==
  /\ q # <<>>
  /\ \/ p = <<>>
     \/ Head(p) < Head(q)
     \/ Head(p) = Head(q) /\ Before(Tail(p), Tail(q))

Range(s) == {s[i] : i \in DOMAIN s}

Count(s, x) == Cardinality({i \in DOMAIN s : s[i] = x})

At(p) == NodeAt(sourceFile, p)

AllPaths == Paths(sourceFile)

LiteralKinds == {"StringLiteral", "NoSubstitutionTemplateLiteral"}

(* a markup attribute that gives its name a literal value *)
IsLiteralAttribute(a) ==
  /\ a.kind = "JsxAttribute"
  /\ Len(a.kids) = 2
  /\ \/ a.kids[2].kind = "StringLiteral"
     \/ /\ a.kids[2].kind = "JsxExpression"
        /\ Len(a.kids[2].kids) = 1
        /\ a.kids[2].kids[1].kind \in LiteralKinds

LiteralAttributeText(a) ==
  IF a.kids[2].kind = "StringLiteral" THEN a.kids[2].text ELSE a.kids[2].kids[1].text

(* a spread attribute, an attribute without a value, or an attribute whose
   embedded expression is no literal *)
IsSkippedAttribute(a) ==
  \/ a.kind = "JsxSpreadAttribute"
  \/ a.kind = "JsxAttribute" /\ Len(a.kids) = 1
  \/ /\ a.kind = "JsxAttribute"
     /\ Len(a.kids) = 2
     /\ a.kids[2].kind = "JsxExpression"
     /\ \/ a.kids[2].kids = <<>>
        \/ a.kids[2].kids[1].kind \notin LiteralKinds

IsElementNamed(e, tag) ==
  /\ e.kind \in {"JsxOpeningElement", "JsxSelfClosingElement"}
  /\ e.kids[1].kind = "Identifier"
  /\ e.kids[1].text = tag

ElementAttributes(e) == e.kids[2].kids

LiteralAttributeNames(e) ==
  {ElementAttributes(e)[j].kids[1].text :
     j \in {j \in DOMAIN ElementAttributes(e) : IsLiteralAttribute(ElementAttributes(e)[j])}}

LiteralAttributeValues(e, k) ==
  {LiteralAttributeText(ElementAttributes(e)[j]) :
     j \in {j \in DOMAIN ElementAttributes(e) :
              /\ IsLiteralAttribute(ElementAttributes(e)[j])
              /\ ElementAttributes(e)[j].kids[1].text = k}}

(* a variable declaration initialized by a call whose callee is the plain
   identifier m *)
IsCallDeclaration(n, m) ==
  /\ n.kind = "VariableDeclaration"
  /\ Len(n.kids) = 2
  /\ n.kids[2].kind = "CallExpression"
  /\ n.kids[2].kids[1].kind = "Identifier"
  /\ n.kids[2].kids[1].text = m

(* a variable declaration initialized by a call whose callee is a property
   access ending in m, as in intl.formatMessage(...) *)
IsMemberCallDeclaration(n, m) ==
  /\ n.kind = "VariableDeclaration"
  /\ Len(n.kids) = 2
  /\ n.kids[2].kind = "CallExpression"
  /\ n.kids[2].kids[1].kind = "PropertyAccessExpression"
  /\ n.kids[2].kids[1].text = m

HasArgument(decl) == Len(decl.kids[2].kids) >= 2

(* path of the first argument of the call that initializes the declaration at p *)
FirstArgument(p) == p \o <<2, 2>>

IsProperPrefix(p, q) == IsPrefix(p, q) /\ p # q

(* the declaration at p lies inside another variable declaration *)
InsideDeclaration(p) ==
  \E q \in AllPaths : IsProperPrefix(q, p) /\ At(q).kind = "VariableDeclaration"

(* the call at c is the initializer of a variable declaration *)
IsInitializer(c) ==
  /\ c # <<>>
  /\ c[Len(c)] = 2
  /\ At(SubSeq(c, 1, Len(c) - 1)).kind = "VariableDeclaration"

(* c lies in the first argument of a call to defineMessages or formatMessage
   that initializes a variable declaration *)
InsideMatchedArgument(c) ==
  \E p \in AllPaths : \E m \in {"defineMessages", "formatMessage"} :
    /\ IsCallDeclaration(At(p), m)
    /\ HasArgument(At(p))
    /\ IsPrefix(FirstArgument(p), c)

(* the object literals of the subtree at a that lie in no other object
   literal of that subtree *)
OutermostObjects(a) ==
  {q \in AllPaths :
     /\ IsPrefix(a, q)
     /\ At(q).kind = "ObjectLiteralExpression"
     /\ \A r \in AllPaths :
          IsPrefix(a, r) /\ IsProperPrefix(r, q) => At(r).kind # "ObjectLiteralExpression"}

(* the values the object o gives the key k by a property assignment with a
   plain or quoted name and a value of one of the kinds *)
GivenValues(o, k, kinds) ==
  {o.kids[j].kids[2].text :
     j \in {j \in DOMAIN o.kids :
              /\ o.kids[j].kind = "PropertyAssignment"
              /\ o.kids[j].kids[1].kind \in {"Identifier", "StringLiteral"}
              /\ o.kids[j].kids[1].text = k
              /\ o.kids[j].kids[2].kind \in kinds}}

GivenKeys(o, kinds) == {k \in MessageKeys : GivenValues(o, k, kinds) # {}}

Carries(o, kinds) == {"id", "defaultMessage"} \subseteq GivenKeys(o, kinds)

(* d is the descriptor of the object at q: its fields are exactly the
   recognized keys the object gives, each with a value given *)
DescribesObject(d, q, kinds) ==
  /\ d.node = q
  /\ DOMAIN d.msg = GivenKeys(At(q), kinds)
  /\ \A k \in DOMAIN d.msg : d.msg[k] \in GivenValues(At(q), k, kinds)

(* out lists, in document order, one descriptor for each path of Q *)
OnePerPath(out, Q, kinds) ==
  /\ Len(out) = Cardinality(Q)
  /\ \A j \in DOMAIN out :
       /\ out[j].node \in Q
       /\ Cardinality({h \in Q : Before(h, out[j].node)}) = j - 1
       /\ DescribesObject(out[j], out[j].node, kinds)

----------------------------------------------------------------------------
(* C2: every descriptor the entry point returns has an id and a
   defaultMessage, each a non-empty string equal to the text of a literal
   of the candidate node the descriptor was read from. *)
C2_NonEmptyLiteralFields ==
  pc = "done" =>
    \A i \in DOMAIN ret : \A k \in {"id", "defaultMessage"} :
      /\ k \in DOMAIN ret[i].msg
      /\ ret[i].msg[k] # ""
      /\ \E q \in AllPaths :
           /\ IsPrefix(ret[i].node, q)
           /\ At(q).kind \in LiteralKinds
           /\ At(q).text = ret[i].msg[k]

(* C6: a matching element whose attributes are literal or skipped ones and
   that gives id and defaultMessage literally yields exactly one descriptor
   per scan of its tag name, and the descriptor's fields are exactly the
   recognized names given with a literal value, each with such a value;
   skipped attributes, whatever their name and position, change nothing. *)
C6_SkippedAttributesHarmless ==
  pc = "done" =>
    \A p \in AllPaths : \A tag \in Range(tagNames) :
      ( /\ IsElementNamed(At(p), tag)
        /\ \A j \in DOMAIN ElementAttributes(At(p)) :
             IsLiteralAttribute(ElementAttributes(At(p))[j])
               \/ IsSkippedAttribute(ElementAttributes(At(p))[j])
        /\ {"id", "defaultMessage"} \subseteq LiteralAttributeNames(At(p)) )
      => /\ Cardinality({i \in DOMAIN results : results[i].node = p}) = Count(tagNames, tag)
         /\ \A i \in DOMAIN results :
              results[i].node = p =>
                /\ DOMAIN results[i].msg = LiteralAttributeNames(At(p)) \cap MessageKeys
                /\ \A k \in DOMAIN results[i].msg :
                     results[i].msg[k] \in LiteralAttributeValues(At(p), k)

(* C6 witness: an element with literal id and defaultMessage and a skipped
   attribute that is itself named id has been scanned and gave one descriptor *)
C6_Witness ==
  /\ pc = "done"
  /\ Len(results) = 1
  /\ \E p \in AllPaths :
       /\ IsElementNamed(At(p), DefaultTagName)
       /\ results[1].node = p
       /\ {"id", "defaultMessage"} \subseteq LiteralAttributeNames(At(p))
       /\ \E j \in DOMAIN ElementAttributes(At(p)) :
            /\ IsSkippedAttribute(ElementAttributes(At(p))[j])
            /\ ElementAttributes(At(p))[j].kind = "JsxAttribute"
            /\ ElementAttributes(At(p))[j].kids[1].text = "id"
            /\ \E h \in 1..(j - 1) : IsLiteralAttribute(ElementAttributes(At(p))[h])

(* C3: the declaration-pattern matcher finds every declaration initialized by
   a defineMessages call with an argument, at any depth and inside any
   construct: the valid descriptors of the first argument are in its output. *)
C3_FindsEveryDeclaration ==
  pc = "done" =>
    \A p \in AllPaths :
      IsCallDeclaration(At(p), "defineMessages") /\ HasArgument(At(p))
        => Range(extractMessagesForNode(At(FirstArgument(p)), FirstArgument(p), "defineMessages"))
             \subseteq Range(dm)

(* C4 as stated: a formatMessage declaration yields one descriptor, never
   more, whatever the shape of its first argument: exactly one when the
   argument's top-level object literal carries string-literal id and
   defaultMessage, none otherwise. *)
C4_OnePerCall ==
  pc = "done" =>
    \A p \in AllPaths :
      ( /\ IsCallDeclaration(At(p), "formatMessage")
        /\ HasArgument(At(p))
        /\ ~InsideDeclaration(p) )
      => LET mine == {i \in DOMAIN fm : IsPrefix(p, fm[i].node)}
             carrying == {q \in OutermostObjects(FirstArgument(p)) :
                            Carries(At(q), {"StringLiteral"})}
         IN Cardinality(mine) = (IF carrying # {} THEN 1 ELSE 0)

(* C4 amended: the single-call matcher yields one descriptor per outermost
   object literal of the first argument that carries string-literal id and
   defaultMessage, in document order, and none for any other; the descriptor
   has exactly the recognized keys given with a string literal (all three
   when description is given too).  A declaration outside any other
   declaration has its descriptors in the output, and every descriptor of
   the output is one of these. *)
C4_OnePerObject ==
  pc = "done" =>
    /\ \A p \in AllPaths :
         IsCallDeclaration(At(p), "formatMessage") /\ HasArgument(At(p))
           => LET out == declMessages(At(p), p, "formatMessage")
              IN /\ OnePerPath(out,
                               {q \in OutermostObjects(FirstArgument(p)) :
                                  Carries(At(q), {"StringLiteral"})},
                               {"StringLiteral"})
                 /\ ~InsideDeclaration(p) => Range(out) \subseteq Range(fm)
    /\ \A i \in DOMAIN fm :
         \E p \in AllPaths :
           /\ IsCallDeclaration(At(p), "formatMessage")
           /\ HasArgument(At(p))
           /\ IsPrefix(FirstArgument(p), fm[i].node)
           /\ fm[i].node \in OutermostObjects(FirstArgument(p))

(* C4 witness: one declaration has given two descriptors *)
C4_Witness ==
  /\ pc = "done"
  /\ Len(fm) = 2
  /\ \E p \in AllPaths :
       /\ IsCallDeclaration(At(p), "formatMessage")
       /\ IsPrefix(FirstArgument(p), fm[1].node)
       /\ IsPrefix(FirstArgument(p), fm[2].node)
       /\ "description" \in DOMAIN fm[2].msg

(* the outer properties of the object at a whose value is an object literal
   carrying literal id and defaultMessage *)
QualifyingProperties(a) ==
  {a \o <<i, 2>> :
     i \in {i \in DOMAIN At(a).kids :
              /\ At(a).kids[i].kind = "PropertyAssignment"
              /\ At(a).kids[i].kids[2].kind = "ObjectLiteralExpression"
              /\ Carries(At(a).kids[i].kids[2], LiteralKinds)}}

(* C5: a defineMessages declaration whose first argument is an object literal
   yields exactly one descriptor per outer property whose value is an object
   literal with literal id and defaultMessage, in the order of the outer
   properties; any other outer property yields none and leaves the
   descriptors of its siblings as they are.  A declaration outside any other
   declaration has these descriptors in the output. *)
C5_OnePerQualifyingProperty ==
  pc = "done" =>
    \A p \in AllPaths :
      ( /\ IsCallDeclaration(At(p), "defineMessages")
        /\ HasArgument(At(p))
        /\ At(FirstArgument(p)).kind = "ObjectLiteralExpression" )
      => LET out == declMessages(At(p), p, "defineMessages")
         IN /\ OnePerPath(out, QualifyingProperties(FirstArgument(p)), LiteralKinds)
            /\ ~InsideDeclaration(p) =>
                 \E k \in 0..Len(dm) : SubSeq(dm, k + 1, k + Len(out)) = out

(* C5 witness: an object with a qualifying property, then one that lacks id
   or defaultMessage, then a qualifying one has given two descriptors *)
C5_Witness ==
  /\ pc = "done"
  /\ Len(dm) = 2
  /\ \E p \in AllPaths :
       /\ IsCallDeclaration(At(p), "defineMessages")
       /\ Len(At(FirstArgument(p)).kids) = 3
       /\ dm[1].node = FirstArgument(p) \o <<1, 2>>
       /\ dm[2].node = FirstArgument(p) \o <<3, 2>>
       /\ At(FirstArgument(p) \o <<2, 2>>).kind = "ObjectLiteralExpression"

(* the calls to formatMessage by its plain name *)
IsFormatMessageCall(n) ==
  /\ n.kind = "CallExpression"
  /\ n.kids[1].kind = "Identifier"
  /\ n.kids[1].text = "formatMessage"

(* C7 as stated: a formatMessage call that is not the initializer of a
   variable declaration yields no descriptor from the entry point, whatever
   its arguments: no descriptor of the method matchers is read from it. *)
C7_NonInitializerYieldsNothing ==
  pc = "done" =>
    \A c \in AllPaths :
      IsFormatMessageCall(At(c)) /\ ~IsInitializer(c)
        => \A d \in Range(dm \o fm) : ~IsPrefix(c, d.node)

(* C7 amended: such a call yields no descriptor unless it lies in the first
   argument of a defineMessages or formatMessage call that initializes a
   variable declaration. *)
C7_NonInitializerOutsideMatchedArgument ==
  pc = "done" =>
    \A c \in AllPaths :
      IsFormatMessageCall(At(c)) /\ ~IsInitializer(c) /\ ~InsideMatchedArgument(c)
        => \A d \in Range(dm \o fm) : ~IsPrefix(c, d.node)

(* C7 witness: a formatMessage call on a valid object, used as a statement
   or as an argument outside any matched argument, and nothing returned *)
C7_Witness ==
  /\ pc = "done"
  /\ ret = <<>>
  /\ \E c \in AllPaths :
       /\ IsFormatMessageCall(At(c))
       /\ ~IsInitializer(c)
       /\ ~InsideMatchedArgument(c)
       /\ Len(At(c).kids) = 2
       /\ At(c).kids[2] = ValidObject

(* C9: the single-call matcher reads a template literal without
   interpolation like a string literal: a formatMessage declaration outside
   any other declaration whose object gives id and defaultMessage as string
   or template literals yields a descriptor of that object. *)
C9_TemplateLiteralInFormatMessage ==
  pc = "done" =>
    \A p \in AllPaths :
      ( /\ IsCallDeclaration(At(p), "formatMessage")
        /\ HasArgument(At(p))
        /\ ~InsideDeclaration(p)
        /\ At(FirstArgument(p)).kind = "ObjectLiteralExpression"
        /\ Carries(At(FirstArgument(p)), LiteralKinds) )
      => \E d \in Range(fm) : d.node = FirstArgument(p)

(* C10: a variable initialized by a call whose callee is a property access
   ending in the target name is not matched and contributes no descriptor,
   whatever the arguments. *)
C10_MemberCallNotMatched ==
  pc = "done" =>
    \A p \in AllPaths : \A m \in {"defineMessages", "formatMessage"} :
      IsMemberCallDeclaration(At(p), m)
        => /\ ~isMethodCall(At(p), m)
           /\ declMessages(At(p), p, m) = <<>>
           /\ \A d \in Range(ret) : ~IsPrefix(p, d.node)

(* C10 witness: const x = intl.formatMessage({id, defaultMessage}) has been
   scanned and nothing returned *)
C10_Witness ==
  /\ pc = "done"
  /\ ret = <<>>
  /\ \E p \in AllPaths :
       /\ IsMemberCallDeclaration(At(p), "formatMessage")
       /\ ~InsideDeclaration(p)
       /\ HasArgument(At(p))
       /\ At(FirstArgument(p)) = ValidObject

(* the paths of S as a sequence in document order *)
RECURSIVE InDocumentOrder(_)
InDocumentOrder(S) ==
  IF S = {} THEN <<>>
  ELSE LET first == CHOOSE p \in S : \A q \in S \ {p} : Before(p, q)
       IN <<first>> \o InDocumentOrder(S \ {first})

(* the descriptors of the elements named tag that give id and defaultMessage,
   in document order of the opening tags *)
MarkupDescriptors(tag) ==
  LET at == InDocumentOrder({p \in AllPaths :
                               /\ IsElementNamed(At(p), tag)
                               /\ {"id", "defaultMessage"} \subseteq LiteralAttributeNames(At(p))})
  IN [j \in DOMAIN at |-> [msg |-> elementMessage(At(at[j])), node |-> at[j]]]

RECURSIVE MarkupDescriptorsOfAll(_)
MarkupDescriptorsOfAll(tags) ==
  IF tags = <<>> THEN <<>>
  ELSE MarkupDescriptors(Head(tags)) \o MarkupDescriptorsOfAll(Tail(tags))

Ascending(s) == \A i \in DOMAIN s : \A j \in DOMAIN s : i < j => Before(s[i].node, s[j].node)

(* C1: the list main returns is the markup descriptors of the default tag
   name, then those of each additional tag name in the order supplied (each
   group in document order of the opening tags), then the declaration-pattern
   descriptors in document order, then the single-call descriptors in
   document order. *)
C1_OutputOrder ==
  pc = "done" =>
    /\ ret = MarkupDescriptorsOfAll(<<DefaultTagName>> \o options) \o dm \o fm
    /\ Ascending(dm)
    /\ Ascending(fm)
    /\ \A d \in Range(dm) : \E p \in AllPaths :
         IsCallDeclaration(At(p), "defineMessages") /\ IsPrefix(FirstArgument(p), d.node)
    /\ \A d \in Range(fm) : \E p \in AllPaths :
         IsCallDeclaration(At(p), "formatMessage") /\ IsPrefix(FirstArgument(p), d.node)

(* C1 witness: a file with an additional-tag element ahead of a default-tag
   element and with both kinds of call has been processed: the default-tag
   descriptor is returned first although its element comes later *)
C1_Witness ==
  /\ pc = "done"
  /\ options # <<>>
  /\ dm # <<>>
  /\ fm # <<>>
  /\ Len(ret) = Len(results) + Len(dm) + Len(fm)
  /\ \E i \in DOMAIN ret : \E j \in DOMAIN ret :
       /\ i < j
       /\ j <= Len(results)
       /\ IsElementNamed(At(ret[i].node), DefaultTagName)
       /\ ~IsElementNamed(At(ret[j].node), DefaultTagName)
       /\ Before(ret[j].node, ret[i].node)

IsUnknownAttribute(a) == a.kind = "JsxAttribute" /\ a.kids[1].text \notin MessageKeys

IsUnknownProperty(q) ==
  /\ q.kind \in {"PropertyAssignment", "ShorthandPropertyAssignment"}
  /\ q.kids[1].kind \in {"Identifier", "StringLiteral"}
  /\ q.kids[1].text \notin MessageKeys

(* the element without its attributes of unknown name *)
WithoutUnknownAttributes(e) ==
  Node(e.kind, e.text,
       <<e.kids[1],
         JsxAttributes(SelectSeq(ElementAttributes(e), LAMBDA a : ~IsUnknownAttribute(a)))>>)

(* the properties of the object without those of unknown key *)
KnownProperties(o) == SelectSeq(o.kids, LAMBDA q : ~IsUnknownProperty(q))

(* the objects the method matchers read descriptors from: for formatMessage
   the outermost objects of the first argument, for defineMessages the object
   values of their properties; of the declarations outside any other *)
FormatCandidates ==
  UNION {OutermostObjects(FirstArgument(p)) :
           p \in {p \in AllPaths : /\ IsCallDeclaration(At(p), "formatMessage")
                                   /\ HasArgument(At(p))
                                   /\ ~InsideDeclaration(p)}}

DefineCandidates ==
  UNION {{q \o <<i, 2>> :
            i \in {i \in DOMAIN At(q).kids :
                     /\ At(q).kids[i].kind = "PropertyAssignment"
                     /\ At(q).kids[i].kids[2].kind = "ObjectLiteralExpression"}} :
           q \in UNION {OutermostObjects(FirstArgument(p)) :
                          p \in {p \in AllPaths : /\ IsCallDeclaration(At(p), "defineMessages")
                                                  /\ HasArgument(At(p))
                                                  /\ ~InsideDeclaration(p)}}}

(* C8: no descriptor has a field other than id, defaultMessage and
   description, and an attribute or property of any other key is ignored:
   for each of the three matchers a candidate yields a descriptor exactly
   when it does with those attributes or properties taken away, and the
   descriptor is the same. *)
C8_UnknownKeysIgnored ==
  pc = "done" =>
    /\ \A d \in Range(ret) : DOMAIN d.msg \subseteq MessageKeys
    /\ \A d \in Range(results) : d.msg = elementMessage(WithoutUnknownAttributes(At(d.node)))
    /\ \A d \in Range(dm) : d.msg = defineMessagesInner(KnownProperties(At(d.node)), 1, EmptyMessage)
    /\ \A d \in Range(fm) : d.msg = formatMessageProps(KnownProperties(At(d.node)), 1, EmptyMessage)
    /\ \A p \in AllPaths : \A tag \in Range(tagNames) :
         IsElementNamed(At(p), tag) =>
           ((\E d \in Range(results) : d.node = p)
              <=> isValidMessage(elementMessage(WithoutUnknownAttributes(At(p)))))
    /\ \A q \in FormatCandidates :
         (\E d \in Range(fm) : d.node = q)
           <=> isValidMessage(formatMessageProps(KnownProperties(At(q)), 1, EmptyMessage))
    /\ \A q \in DefineCandidates :
         (\E d \in Range(dm) : d.node = q)
           <=> isValidMessage(defineMessagesInner(KnownProperties(At(q)), 1, EmptyMessage))

(* C8 witness: each matcher has returned a descriptor of a candidate that
   has an attribute or a property of unknown key with a literal value *)
C8_Witness ==
  /\ pc = "done"
  /\ \E d \in Range(results) : \E j \in DOMAIN ElementAttributes(At(d.node)) :
       /\ IsUnknownAttribute(ElementAttributes(At(d.node))[j])
       /\ IsLiteralAttribute(ElementAttributes(At(d.node))[j])
  /\ \E d \in Range(dm) : \E j \in DOMAIN At(d.node).kids :
       IsUnknownProperty(At(d.node).kids[j])
  /\ \E d \in Range(fm) : \E j \in DOMAIN At(d.node).kids :
       IsUnknownProperty(At(d.node).kids[j])

====
